---- MODULE Spec2Model ----
(***************************************************************************)
(* IntelliVision-AI client: the streaming live-camera page                 *)
(* (client/src/pages/LiveCamera.jsx, lines 1-468), the on-demand           *)
(* live-camera page (same file, lines 471-997), the History page           *)
(* (unnamed/part_002) and the upload page (client/src/pages/Home.jsx).     *)
(* The pages are separate components: each has its own specification, in   *)
(* which the other pages stay as constructed.                              *)
(*                                                                         *)
(* A React component is modelled as a state machine on one event loop:   *)
(* every handler (click, promise continuation, socket event, interval      *)
(* callback, unmount cleanup) is one atomic action.  State set with        *)
(* useState is rendered immediately; a setter called after unmount is a    *)
(* no-op.  Browser objects (MediaStream, WebSocket, interval) are kept in  *)
(* tables indexed by creation order, so that a released reference and a    *)
(* resource that is still alive can be told apart.                         *)
(***************************************************************************)
EXTENDS Integers, Sequences, FiniteSets, TLC

VARIABLES
  mounted,             \* the component is mounted
  isCameraActive,      \* useState, line 56
  isLoading,           \* useState, line 57
  isAnalyzing,         \* useState, line 58
  camError,            \* useState, line 59 ("" stands for null)
  mode,                \* useState, line 62
  cbMode,              \* the `mode` closed over by the memoized captureAndAnalyze
  display,             \* the result state, lines 65-83
  resultKey,           \* useState, line 85
  streamRef,           \* useRef, line 89 (0 stands for null)
  socketRef,           \* useRef, line 90
  captureIntervalRef,  \* useRef, line 91
  pendingAcq,          \* startCamera calls suspended at `await getUserMedia`
  starts,              \* number of startCamera invocations so far
  streams,             \* MediaStream objects created so far
  sockets,             \* WebSocket objects created so far
  timers,              \* intervals created so far
  sent,                \* number of socket.send calls that returned normally
  lastSent,            \* the message of the latest such call
  toasts,              \* number of addToast calls, per message
  stoppedSinceStart,   \* history: stopCamera ran after the latest startCamera call
  last,                \* history: the handler that ran last and what it saw
  onDemand,            \* the on-demand live-camera page, lines 526-641
  history,             \* the History page, part_002 lines 797-824
  home                 \* the upload page, Home.jsx lines 242-292

streaming == <<mounted, isCameraActive, isLoading, isAnalyzing, camError, mode, cbMode,
          display, resultKey, streamRef, socketRef, captureIntervalRef,
          pendingAcq, starts, streams, sockets, timers, sent, lastSent,
          toasts, stoppedSinceStart, last>>

otherPages == <<onDemand, history, home>>

vars == <<streaming, otherPages>>

(* ------------------------------ bounds --------------------------------- *)
MaxStarts == 2      \* startCamera invocations explored
MaxSent == 2        \* frames sent explored
MaxDeletes == 2     \* delete requests explored
MaxAnalyses == 2    \* upload analyses explored

(* ----------------------------- constants ------------------------------- *)
null == 0

MODES == <<"surveillance", "assistive", "self_driving">>

ModeValues == {MODES[i] : i \in 1..Len(MODES)}

InitialMode == "surveillance"

ToastMessages == {"Camera access denied.", "Live stream connection failed."}

(* addToast messages of the on-demand page, lines 581 and 638. *)
OnDemandToasts == {"Camera access denied.", "Failed to analyse frame."}

(* An optional JSON field: <<>> when the key is absent, <<v>> when present. *)
None == <<>>

Some(v) == <<v>>

(* a ?? d *)
Nullish(opt, d) == IF opt = None THEN d ELSE opt[1]

(* ------------------------- inbound payloads ---------------------------- *)
(* Ratios are carried in hundredths (0.9 is 90).                            *)
EmptyData ==
  [error |-> None, detections |-> None, navigation |-> None, safe_ratio |-> None,
   summary |-> None, timing_ms |-> None, urgent_count |-> None,
   urgent_alerts |-> None, all_alerts |-> None, navigation_spoken |-> None,
   instruction |-> None, left_clear |-> None, right_clear |-> None,
   center_clear |-> None, road_clear |-> None]

SurveillanceData ==
  [EmptyData EXCEPT
     !.detections = Some(<<[label |-> "person", confidence |-> 92, urgency |-> TRUE]>>),
     !.navigation = Some("Obstacle Ahead"),
     !.safe_ratio = Some(40),
     !.summary = Some("A person is ahead"),
     !.urgent_count = Some(1),
     !.timing_ms = Some([total_ms |-> 150, avg_fps |-> 5])]

AssistiveData ==
  [EmptyData EXCEPT
     !.navigation_spoken = Some("Stop, person ahead"),
     !.urgent_alerts = Some(<<"person ahead">>),
     !.all_alerts = Some(<<"person ahead", "chair left">>),
     !.summary = Some("Assistive narration")]

SelfDrivingData ==
  [EmptyData EXCEPT
     !.instruction = Some("Stop"),
     !.left_clear = Some(90),
     !.right_clear = Some(10),
     !.center_clear = Some(FALSE),
     !.road_clear = Some(FALSE)]

ErrorData == [EmptyData EXCEPT !.error = Some("inference failed")]

Payloads == {EmptyData, SurveillanceData, AssistiveData, SelfDrivingData, ErrorData}

(* ------------------------- initial display state ----------------------- *)
InitDisplay ==
  [detections |-> <<>>, navigation |-> "", safeRatio |-> 0, sceneDescription |-> "",
   caption |-> "", depthMap |-> "", freeMask |-> "", urgentCount |-> 0,
   timingMs |-> None, fps |-> None, urgentAlerts |-> <<>>, allAlerts |-> <<>>,
   navSpoken |-> "", instruction |-> "", leftClear |-> 0, rightClear |-> 0,
   centerClear |-> FALSE, roadClear |-> FALSE]

NoOp == [op |-> "init", repeated |-> FALSE, wasAnalyzing |-> FALSE,
         wasLive |-> FALSE, chan |-> "NONE",
         didSend |-> FALSE, stale |-> FALSE, changed |-> FALSE, outcome |-> "none",
         malformed |-> FALSE, calls |-> <<>>]

NoToasts == [m \in ToastMessages |-> 0]

(* History records of the other pages. *)
OnDemandNoOp ==
  [op |-> "init", wasAnalyzing |-> FALSE, outcome |-> "none",
   changed |-> FALSE, hadAlerts |-> FALSE]

HistoryNoOp == [op |-> "init", id |-> "", outcome |-> "none"]

HomeNoOp == [op |-> "init", outcome |-> "none"]

NoRequest == [mode |-> InitialMode, modeInForce |-> InitialMode, chan |-> "OPEN"]

(* ---------------------- the other pages, as constructed ---------------- *)
(* LiveCamera.jsx lines 528-562 (on-demand page).                           *)
OnDemandInit ==
  [mounted |-> TRUE, isCameraActive |-> FALSE, isLoading |-> FALSE,
   isAnalyzing |-> FALSE, camError |-> "", mode |-> InitialMode,
   display |-> InitDisplay, resultKey |-> 0, streamRef |-> null,
   lastFrameTs |-> FALSE, pendingAcq |-> 0, starts |-> 0, streams |-> <<>>,
   captures |-> <<>>, issued |-> 0, toasts |-> [m \in OnDemandToasts |-> 0],
   stoppedSinceStart |-> FALSE, prevMode |-> InitialMode,
   last |-> OnDemandNoOp]

(* part_002 lines 798-800; loadHistory is called by the mount effect.       *)
HistoryInit ==
  [historyItems |-> <<>>, isLoading |-> TRUE, loading |-> TRUE,
   deleting |-> <<>>, deletes |-> 0, toast |-> "", last |-> HistoryNoOp]

(* Home.jsx lines 243-248.                                                  *)
HomeInit ==
  [file |-> null, preview |-> null, isDragActive |-> FALSE, loading |-> FALSE,
   result |-> None, mode |-> InitialMode, requests |-> <<>>, analyses |-> 0,
   toast |-> "", last |-> HomeNoOp]

Init ==
  /\ mounted = TRUE
  /\ isCameraActive = FALSE
  /\ isLoading = FALSE
  /\ isAnalyzing = FALSE
  /\ camError = ""
  /\ mode = InitialMode
  /\ cbMode = InitialMode
  /\ display = InitDisplay
  /\ resultKey = 0
  /\ streamRef = null
  /\ socketRef = null
  /\ captureIntervalRef = null
  /\ pendingAcq = 0
  /\ starts = 0
  /\ streams = <<>>
  /\ sockets = <<>>
  /\ timers = <<>>
  /\ sent = 0
  /\ lastSent = NoRequest
  /\ toasts = NoToasts
  /\ stoppedSinceStart = FALSE
  /\ last = NoOp
  /\ onDemand = OnDemandInit
  /\ history = HistoryInit
  /\ home = HomeInit

(* --------------------------- rendered output --------------------------- *)
(* <video ref={videoRef}> is rendered only while isCameraActive.            *)
videoRefCurrent == mounted /\ isCameraActive

(* <canvas ref={canvasRef}> is always rendered.                             *)
canvasRefCurrent == mounted

(* Variant: the button is not hidden while the camera is initialising.      *)
StartVisibleWhileLoading == mounted /\ ~isCameraActive

(* The Start Camera button: in the placeholder, and not while loading.      *)
StartVisible == mounted /\ ~isCameraActive /\ ~isLoading

(* The STOP STREAM button.                                                  *)
StopVisible == mounted /\ isCameraActive

(* The LIVE badge and the status pill.                                      *)
LiveBadge == mounted /\ isCameraActive

StatusText ==
  IF isAnalyzing THEN "PROCESSING FRAME..."
  ELSE IF isCameraActive THEN "LIVE STREAM ACTIVE" ELSE "SYSTEM IDLE"

(* A state setter called on an unmounted component changes nothing.         *)
SetState(cur, v) == IF mounted THEN v ELSE cur

(* addToast(message, 'error') *)
addToast(m) == [toasts EXCEPT ![m] = @ + 1]

(* ---------------------------- browser objects -------------------------- *)
NewStream == [stopped |-> FALSE, stopCalls |-> 0]

(* requests: the frames received by the service whose answer can still be   *)
(* delivered (message events stop once the socket leaves OPEN).             *)
NewSocket == [readyState |-> "CONNECTING", closeCalls |-> 0, opened |-> FALSE,
              requests |-> <<>>]

(* An interval, with the socket whose onopen created it.                    *)
NewTimer(s) == [running |-> TRUE, clearCalls |-> 0, socket |-> s]

(* Variant: the handle is dropped without cancelling the interval.          *)
clearIntervalDropped(ts, t) == ts

(* clearInterval(id) *)
clearInterval(ts, t) ==
  [ts EXCEPT ![t] = [@ EXCEPT !.running = FALSE, !.clearCalls = @ + 1]]

(* WebSocket.close(): nothing when CLOSING or CLOSED, else the closing      *)
(* handshake starts (or the pending connection is failed).                  *)
close(ss, s) ==
  [ss EXCEPT ![s] = [@ EXCEPT !.closeCalls = @ + 1,
                              !.readyState = IF @ \in {"CLOSING", "CLOSED"}
                                             THEN @ ELSE "CLOSING",
                              !.requests = <<>>]]

(* stream.getTracks().forEach(t => t.stop()) *)
stopTracks(st, i) ==
  [st EXCEPT ![i] = [stopped |-> TRUE, stopCalls |-> @.stopCalls + 1]]

(* WebSocket.send throws InvalidStateError while CONNECTING; a null         *)
(* reference throws TypeError.  CLOSING/CLOSED discard the data silently.   *)
sendThrows(s) == s = null \/ sockets[s].readyState = "CONNECTING"

ChanState == IF socketRef = null THEN "NONE" ELSE sockets[socketRef].readyState

LiveStreams == {i \in DOMAIN streams : ~streams[i].stopped}

LiveSockets == {s \in DOMAIN sockets : sockets[s].readyState \in {"CONNECTING", "OPEN"}}

RunningTimers == {t \in DOMAIN timers : timers[t].running}

(* The orchestrator is Live: camera shown active and the channel open.      *)
IsLive == isCameraActive /\ ChanState = "OPEN"

(* Handlers no property looks back at leave a bare history record.         *)
Other == [NoOp EXCEPT !.op = "other"]

Op(name) ==
  [NoOp EXCEPT !.op = name, !.wasAnalyzing = isAnalyzing, !.wasLive = IsLive,
               !.chan = ChanState]

(* ------------------------------ startCamera ---------------------------- *)
(* Lines 103-106: up to the await.                                          *)
startCamera ==
  /\ starts < MaxStarts
  /\ starts' = starts + 1
  /\ isLoading' = SetState(isLoading, TRUE)
  /\ camError' = SetState(camError, "")
  /\ pendingAcq' = pendingAcq + 1
  /\ stoppedSinceStart' = FALSE
  /\ last' = [Op("startCamera") EXCEPT !.outcome = "accepted"]
  /\ UNCHANGED <<mounted, isCameraActive, isAnalyzing, mode, cbMode, display,
                 resultKey, streamRef, socketRef, captureIntervalRef,
                 streams, sockets, timers, sent, lastSent, toasts>>

(* The operator clicks Start Camera. *)
ClickStart == StartVisible /\ startCamera

(* Lines 109-114 and 154: getUserMedia resolved. *)
AcquireResolve ==
  /\ pendingAcq > 0
  /\ pendingAcq' = pendingAcq - 1
  /\ streams' = Append(streams, NewStream)
  /\ streamRef' = Len(streams) + 1
  /\ isCameraActive' = SetState(isCameraActive, TRUE)
  /\ sockets' = Append(sockets, NewSocket)
  /\ socketRef' = Len(sockets) + 1
  /\ isLoading' = SetState(isLoading, FALSE)
  /\ last' = Other
  /\ UNCHANGED <<mounted, isAnalyzing, camError, mode, cbMode, display,
                 resultKey, captureIntervalRef, starts, timers, sent,
                 lastSent, toasts, stoppedSinceStart>>

(* Variant: the catch block without the finally of line 154.              *)
AcquireRejectNoFinally(msg) ==
  /\ pendingAcq > 0
  /\ pendingAcq' = pendingAcq - 1
  /\ camError' = SetState(camError, IF msg = "" THEN "Camera unavailable" ELSE msg)
  /\ toasts' = addToast("Camera access denied.")
  /\ isLoading' = isLoading
  /\ last' = [Other EXCEPT !.op = "acquireFailed"]
  /\ UNCHANGED <<mounted, isCameraActive, isAnalyzing, mode, cbMode, display,
                 resultKey, streamRef, socketRef, captureIntervalRef, starts,
                 streams, sockets, timers, sent, lastSent,
                 stoppedSinceStart>>

(* Lines 151-154: getUserMedia rejected with an error whose message is msg. *)
AcquireReject(msg) ==
  /\ pendingAcq > 0
  /\ pendingAcq' = pendingAcq - 1
  /\ camError' = SetState(camError, IF msg = "" THEN "Camera unavailable" ELSE msg)
  /\ toasts' = addToast("Camera access denied.")
  /\ isLoading' = SetState(isLoading, FALSE)
  /\ last' = [Other EXCEPT !.op = "acquireFailed"]
  /\ UNCHANGED <<mounted, isCameraActive, isAnalyzing, mode, cbMode, display,
                 resultKey, streamRef, socketRef, captureIntervalRef, starts,
                 streams, sockets, timers, sent, lastSent,
                 stoppedSinceStart>>

(* ------------------------------ socket events -------------------------- *)
(* socket.onopen, lines 116-122. *)
SocketOpen(s) ==
  /\ sockets[s].readyState = "CONNECTING"
  /\ sockets' = [sockets EXCEPT ![s] = [@ EXCEPT !.readyState = "OPEN", !.opened = TRUE]]
  /\ timers' = Append(timers, NewTimer(s))
  /\ captureIntervalRef' = Len(timers) + 1
  /\ last' = Other
  /\ UNCHANGED <<mounted, isCameraActive, isLoading, isAnalyzing, camError,
                 mode, cbMode, display, resultKey, streamRef, socketRef,
                 pendingAcq, starts, streams, sent, lastSent, toasts,
                 stoppedSinceStart>>

(* The service starts the closing handshake. *)
ServerClose(s) ==
  /\ sockets[s].readyState = "OPEN"
  /\ sockets' = [sockets EXCEPT ![s] = [@ EXCEPT !.readyState = "CLOSING",
                                                  !.requests = <<>>]]
  /\ last' = Other
  /\ UNCHANGED <<mounted, isCameraActive, isLoading, isAnalyzing, camError,
                 mode, cbMode, display, resultKey, streamRef, socketRef,
                 captureIntervalRef, pendingAcq, starts, streams, timers,
                 sent, lastSent, toasts, stoppedSinceStart>>

(* socket.onclose, line 145: only logs. *)
SocketClosed(s) ==
  /\ sockets[s].readyState = "CLOSING"
  /\ sockets' = [sockets EXCEPT ![s] = [@ EXCEPT !.readyState = "CLOSED",
                                                  !.requests = <<>>]]
  /\ last' = Other
  /\ UNCHANGED <<mounted, isCameraActive, isLoading, isAnalyzing, camError,
                 mode, cbMode, display, resultKey, streamRef, socketRef,
                 captureIntervalRef, pendingAcq, starts, streams, timers,
                 sent, lastSent, toasts, stoppedSinceStart>>

(* socket.onerror, lines 146-149, then onclose: the connection failed. *)
SocketError(s) ==
  /\ sockets[s].readyState \in {"CONNECTING", "OPEN", "CLOSING"}
  /\ sockets' = [sockets EXCEPT ![s] = [@ EXCEPT !.readyState = "CLOSED",
                                                  !.requests = <<>>]]
  /\ toasts' = addToast("Live stream connection failed.")
  /\ last' = [Other EXCEPT !.op = "error",
                           !.outcome = IF s = socketRef THEN "current" ELSE "old"]
  /\ UNCHANGED <<mounted, isCameraActive, isLoading, isAnalyzing, camError,
                 mode, cbMode, display, resultKey, streamRef, socketRef,
                 captureIntervalRef, pendingAcq, starts, streams, timers,
                 sent, lastSent, stoppedSinceStart>>

(* ------------------------------- stopCamera ---------------------------- *)
(* Variant: the socket reference is not cleared after close().              *)
(* A teardown that releases the device before the channel and the timer.   *)
stopCameraCallsDeviceFirst == <<"stopTracks", "close", "clearInterval">>

(* Lines 158-170: the release calls of stopCamera in statement order.      *)
stopCameraCalls == <<"clearInterval", "close", "stopTracks">>

(* The release calls one stopCamera makes: each is guarded by its ref,      *)
(* lines 158, 163 and 169.                                                  *)
CallsMade ==
  LET made(c) == \/ c = "clearInterval" /\ captureIntervalRef # null
                 \/ c = "close" /\ socketRef # null
                 \/ c = "stopTracks" /\ streamRef # null
  IN SelectSeq(stopCameraCalls, made)

stopCameraKeepSocketRef ==
  /\ timers' = IF captureIntervalRef # null
               THEN clearInterval(timers, captureIntervalRef) ELSE timers
  /\ captureIntervalRef' = null
  /\ sockets' = IF socketRef # null THEN close(sockets, socketRef) ELSE sockets
  /\ socketRef' = socketRef
  /\ streams' = IF streamRef # null THEN stopTracks(streams, streamRef) ELSE streams
  /\ streamRef' = null
  /\ isCameraActive' = SetState(isCameraActive, FALSE)
  /\ stoppedSinceStart' = TRUE

(* Lines 157-172. *)
stopCamera ==
  /\ timers' = IF captureIntervalRef # null
               THEN clearInterval(timers, captureIntervalRef) ELSE timers
  /\ captureIntervalRef' = null
  /\ sockets' = IF socketRef # null THEN close(sockets, socketRef) ELSE sockets
  /\ socketRef' = null
  /\ streams' = IF streamRef # null THEN stopTracks(streams, streamRef) ELSE streams
  /\ streamRef' = null
  /\ isCameraActive' = SetState(isCameraActive, FALSE)
  /\ stoppedSinceStart' = TRUE

(* The operator clicks STOP STREAM. *)
ClickStop ==
  /\ StopVisible
  /\ stopCamera
  /\ last' = [Op("stopCamera") EXCEPT !.repeated = (last.op = "stopCamera"),
                                      !.calls = CallsMade]
  /\ UNCHANGED <<mounted, isLoading, isAnalyzing, camError, mode, cbMode,
                 display, resultKey, pendingAcq, starts, sent, lastSent,
                 toasts>>

(* The unmount effect, line 96: the cleanup calls stopCamera. *)
Unmount ==
  /\ mounted
  /\ stopCamera
  /\ mounted' = FALSE
  /\ last' = [Op("stopCamera") EXCEPT !.repeated = (last.op = "stopCamera"),
                                      !.calls = CallsMade]
  /\ UNCHANGED <<isLoading, isAnalyzing, camError, mode, cbMode, display,
                 resultKey, pendingAcq, starts, sent, lastSent, toasts>>

(* ------------------------------ mode selector -------------------------- *)
(* The dependency values of useCallback(captureAndAnalyze, []) when the     *)
(* selected mode is m: the array is empty, line 202.                        *)
captureAndAnalyzeDeps(m) == <<>>

(* Lines 250-266: a mode pill is clicked.  The re-render memoizes a new     *)
(* captureAndAnalyze only when its dependencies changed.                    *)
SetMode(m) ==
  /\ mounted
  /\ m # mode
  /\ mode' = m
  /\ cbMode' = IF captureAndAnalyzeDeps(m) # captureAndAnalyzeDeps(mode)
               THEN m ELSE cbMode
  /\ last' = Other
  /\ UNCHANGED <<mounted, isCameraActive, isLoading, isAnalyzing, camError,
                 display, resultKey, streamRef, socketRef,
                 captureIntervalRef, pendingAcq, starts, streams, sockets,
                 timers, sent, lastSent, toasts, stoppedSinceStart>>

(* --------------------------- captureAndAnalyze ------------------------- *)
(* Variant: the element guard is missing.                                   *)
elementsNotChecked == TRUE

(* Line 176. *)
elementsReady == videoRefCurrent /\ canvasRefCurrent

(* Variant: only the presence of the socket is tested.                      *)
channelExists == socketRef # null

(* Line 177: socketRef.current?.readyState === WebSocket.OPEN *)
channelIsOpen == socketRef # null /\ sockets[socketRef].readyState = "OPEN"

(* The outgoing message, lines 194-197. *)
Request == [mode |-> cbMode, modeInForce |-> mode, chan |-> ChanState]

(* Line 200: the value the catch block gives isAnalyzing. *)
flagLeftSet == TRUE
flagAfterSendError == FALSE

(* Lines 175-202, fired by interval t. send() is a host call guarded by    *)
(* the try block of lines 193-201: `fault` is the call throwing.            *)
Tick(t, fault) ==
  /\ timers[t].running
  /\ IF ~elementsReady \/ ~channelIsOpen
     THEN /\ last' = [Op("tick") EXCEPT
                        !.outcome = IF ~elementsReady THEN "NoElement"
                                    ELSE "ChannelNotOpen"]
          /\ UNCHANGED <<isAnalyzing, sent, lastSent, sockets>>
     ELSE IF fault \/ sendThrows(socketRef)
     THEN /\ isAnalyzing' = SetState(isAnalyzing, flagAfterSendError)
          /\ last' = [Op("tick") EXCEPT !.outcome = "SendError"]
          /\ UNCHANGED <<sent, lastSent, sockets>>
     ELSE /\ sent < MaxSent
          /\ isAnalyzing' = SetState(isAnalyzing, TRUE)
          /\ sent' = sent + 1
          /\ lastSent' = Request
          /\ sockets' = IF sockets[socketRef].readyState = "OPEN"
                        THEN [sockets EXCEPT ![socketRef].requests = Append(@, Request)]
                        ELSE sockets
          /\ last' = [Op("tick") EXCEPT !.outcome = "sent", !.didSend = TRUE]
  /\ UNCHANGED <<mounted, isCameraActive, isLoading, camError, mode, cbMode,
                 display, resultKey, streamRef, socketRef,
                 captureIntervalRef, pendingAcq, starts, streams, timers,
                 toasts, stoppedSinceStart>>

(* ------------------------------ socket.onmessage ----------------------- *)
Truthy(opt) == opt # None /\ opt[1] # ""

(* Variant: detections and navigation absent from the result keep their   *)
(* earlier value.                                                          *)
ReconcileMerge(d, data) ==
  [d EXCEPT
     !.detections = Nullish(data.detections, @),
     !.navigation = Nullish(data.navigation, @),
     !.safeRatio = Nullish(data.safe_ratio, 0),
     !.sceneDescription = Nullish(data.summary, ""),
     !.timingMs = data.timing_ms,
     !.fps = IF data.timing_ms # None /\ data.timing_ms[1].avg_fps # 0
             THEN Some(data.timing_ms[1].avg_fps) ELSE @]

(* Lines 132-139. *)
Reconcile(d, data) ==
  [d EXCEPT
     !.detections = Nullish(data.detections, <<>>),
     !.navigation = Nullish(data.navigation, ""),
     !.safeRatio = Nullish(data.safe_ratio, 0),
     !.sceneDescription = Nullish(data.summary, ""),
     !.timingMs = data.timing_ms,
     !.fps = IF data.timing_ms # None /\ data.timing_ms[1].avg_fps # 0
             THEN Some(data.timing_ms[1].avg_fps) ELSE @]

(* A result without error that carries no detections, navigation or       *)
(* summary.                                                                 *)
Malformed(data) ==
  /\ ~Truthy(data.error)
  /\ data.detections = None /\ data.navigation = None /\ data.summary = None

(* Lines 124-143: the service answers the oldest unanswered frame of        *)
(* socket s with `data`; message events are delivered only while OPEN.      *)
OnMessage(s, data) ==
  /\ sockets[s].readyState = "OPEN"
  /\ sockets[s].requests # <<>>
  /\ sockets' = [sockets EXCEPT ![s].requests = Tail(@)]
  /\ LET req == Head(sockets[s].requests)
         isStale == req.mode # mode /\ req.modeInForce # mode
     IN IF Truthy(data.error)
        THEN /\ last' = [Op("message") EXCEPT !.outcome = "error", !.stale = isStale,
                                            !.malformed = Malformed(data)]
             /\ UNCHANGED <<display, resultKey, isAnalyzing>>
        ELSE /\ display' = SetState(display, Reconcile(display, data))
             /\ resultKey' = SetState(resultKey, resultKey + 1)
             /\ isAnalyzing' = SetState(isAnalyzing, FALSE)
             /\ last' = [Op("message") EXCEPT
                           !.outcome = "applied", !.stale = isStale,
                           !.changed = (display' # display),
                           !.malformed = Malformed(data)]
  /\ UNCHANGED <<mounted, isCameraActive, isLoading, camError, mode, cbMode,
                 streamRef, socketRef, captureIntervalRef, pendingAcq,
                 starts, streams, timers, sent, lastSent, toasts,
                 stoppedSinceStart>>

(* ------------------------------ specifications ------------------------- *)
Next ==
  \/ ClickStart /\ UNCHANGED otherPages
  \/ AcquireResolve /\ UNCHANGED otherPages
  \/ \E msg \in {"", "Permission denied"} : AcquireReject(msg) /\ UNCHANGED otherPages
  \/ \E s \in DOMAIN sockets : SocketOpen(s) /\ UNCHANGED otherPages
  \/ \E s \in DOMAIN sockets : ServerClose(s) /\ UNCHANGED otherPages
  \/ \E s \in DOMAIN sockets : SocketClosed(s) /\ UNCHANGED otherPages
  \/ \E s \in DOMAIN sockets : SocketError(s) /\ UNCHANGED otherPages
  \/ ClickStop /\ UNCHANGED otherPages
  \/ Unmount /\ UNCHANGED otherPages
  \/ \E m \in ModeValues : SetMode(m) /\ UNCHANGED otherPages
  \/ \E t \in DOMAIN timers, fault \in BOOLEAN : Tick(t, fault) /\ UNCHANGED otherPages
  \/ \E s \in DOMAIN sockets : \E data \in Payloads : OnMessage(s, data) /\ UNCHANGED otherPages

(* The page as the operator drives it through the rendered controls. *)
Spec == Init /\ [][Next]_vars

(* startCamera called as a function, whatever is rendered. *)
StartCameraCall ==
  mounted /\ ~StartVisible /\ startCamera /\ UNCHANGED otherPages

NextApi == Next \/ StartCameraCall

SpecApi == Init /\ [][NextApi]_vars

(* ====================== the on-demand live-camera page ================= *)
(* LiveCamera.jsx lines 471-997: one capture per click, sent with fetch.   *)

(* The fields of a /process-frame response read at lines 617-634.          *)
FrameEmpty ==
  [detections |-> None, navigation |-> None, safe_ratio |-> None,
   scene_description |-> None, caption |-> None, depth_map |-> None,
   free_mask |-> None, urgent_count |-> None, timing_ms |-> None,
   urgent_alerts |-> None, all_alerts |-> None, navigation_spoken |-> None,
   instruction |-> None, left_clear |-> None, right_clear |-> None,
   center_clear |-> None, road_clear |-> None]

FrameSurveillance ==
  [FrameEmpty EXCEPT
     !.detections = Some(<<[label |-> "person", confidence |-> 92, urgency |-> TRUE]>>),
     !.navigation = Some("Obstacle Ahead"),
     !.safe_ratio = Some(40),
     !.scene_description = Some("A person is ahead"),
     !.urgent_count = Some(1)]

FrameAssistive ==
  [FrameEmpty EXCEPT
     !.navigation_spoken = Some("Stop, person ahead"),
     !.urgent_alerts = Some(<<"person ahead">>),
     !.all_alerts = Some(<<"person ahead", "chair left">>)]

FrameSelfDriving ==
  [FrameEmpty EXCEPT
     !.instruction = Some("Stop"),
     !.left_clear = Some(90),
     !.right_clear = Some(10),
     !.center_clear = Some(FALSE),
     !.road_clear = Some(FALSE)]

Frames == {FrameEmpty, FrameSurveillance, FrameAssistive, FrameSelfDriving}

(* Math.round(1000 / (now - lastFrameTs.current)), line 612: the clock is  *)
(* not modelled, the rate is one of these.                                 *)
FpsValues == {30}

(* A setter of the on-demand page: nothing once unmounted.                 *)
OnDemandSet(cur, v) == IF onDemand.mounted THEN v ELSE cur

OnDemandOp(name) ==
  [OnDemandNoOp EXCEPT !.op = name, !.wasAnalyzing = onDemand.isAnalyzing,
                       !.hadAlerts = (onDemand.display.urgentAlerts # <<>>)]

(* Lines 710-713: <video ref={videoRef}> only while isCameraActive; the     *)
(* canvas of line 749 is always rendered.                                  *)
OnDemandVideoRef == onDemand.mounted /\ onDemand.isCameraActive

OnDemandCanvasRef == onDemand.mounted

(* Lines 720-722 and 766-768: both Start buttons.                          *)
OnDemandStartVisible ==
  onDemand.mounted /\ ~onDemand.isCameraActive /\ ~onDemand.isLoading

(* startCamera up to its await, lines 571-575.                             *)
OnDemandClickStart ==
  /\ OnDemandStartVisible
  /\ onDemand.starts < MaxStarts
  /\ onDemand' = [onDemand EXCEPT
                    !.isLoading = TRUE, !.camError = "",
                    !.pendingAcq = @ + 1, !.starts = @ + 1,
                    !.stoppedSinceStart = FALSE,
                    !.last = OnDemandOp("startCamera")]
  /\ UNCHANGED <<streaming, history, home>>

(* getUserMedia resolves, lines 576-577 and 582.                           *)
OnDemandAcquireResolve ==
  /\ onDemand.pendingAcq > 0
  /\ onDemand' = [onDemand EXCEPT
                    !.pendingAcq = @ - 1,
                    !.streams = Append(@, NewStream),
                    !.streamRef = Len(onDemand.streams) + 1,
                    !.isCameraActive = OnDemandSet(@, TRUE),
                    !.isLoading = OnDemandSet(@, FALSE),
                    !.last = OnDemandOp("acquired")]
  /\ UNCHANGED <<streaming, history, home>>

(* getUserMedia rejects, lines 578-582.                                    *)
OnDemandAcquireReject(msg) ==
  /\ onDemand.pendingAcq > 0
  /\ onDemand' = [onDemand EXCEPT
                    !.pendingAcq = @ - 1,
                    !.camError = OnDemandSet(@, IF msg = "" THEN "Camera unavailable"
                                                ELSE msg),
                    !.toasts["Camera access denied."] = @ + 1,
                    !.isLoading = OnDemandSet(@, FALSE),
                    !.last = OnDemandOp("acquireFailed")]
  /\ UNCHANGED <<streaming, history, home>>

(* stopCamera, lines 585-589: the state it leaves.                         *)
OnDemandStopCamera ==
  [onDemand EXCEPT
     !.streams = IF onDemand.streamRef # null
                 THEN stopTracks(@, onDemand.streamRef) ELSE @,
     !.streamRef = null,
     !.isCameraActive = OnDemandSet(@, FALSE),
     !.stoppedSinceStart = TRUE,
     !.last = OnDemandOp("stopCamera")]

(* The Stop button, lines 762-765.                                         *)
OnDemandClickStop ==
  /\ onDemand.mounted /\ onDemand.isCameraActive
  /\ onDemand' = OnDemandStopCamera
  /\ UNCHANGED <<streaming, history, home>>

(* The unmount effect, line 562.                                           *)
OnDemandUnmount ==
  /\ onDemand.mounted
  /\ onDemand' = [OnDemandStopCamera EXCEPT !.mounted = FALSE]
  /\ UNCHANGED <<streaming, history, home>>

(* A mode pill, line 693.                                                  *)
OnDemandSetMode(m) ==
  /\ onDemand.mounted
  /\ m # onDemand.mode
  /\ onDemand' = [onDemand EXCEPT !.mode = m, !.prevMode = onDemand.mode,
                                  !.last = OnDemandOp("setMode")]
  /\ UNCHANGED <<streaming, history, home>>

(* Variant: the guard of line 593 without isAnalyzing.                     *)
OnDemandGuardElementsOnly == OnDemandVideoRef /\ OnDemandCanvasRef

(* The guard of line 593.                                                  *)
OnDemandGuard ==
  OnDemandVideoRef /\ OnDemandCanvasRef /\ ~onDemand.isAnalyzing

(* captureAndAnalyze up to toBlob, lines 592-601.  The callback is         *)
(* re-created when isAnalyzing or mode change (line 641), so it reads the  *)
(* rendered values.  The button of lines 755-757 is disabled when the      *)
(* guard would reject; the call itself is made whatever is rendered.       *)
OnDemandCapture ==
  /\ onDemand.mounted
  /\ IF ~OnDemandGuard
     THEN onDemand' = [onDemand EXCEPT
                         !.last = [OnDemandOp("capture") EXCEPT !.outcome = "rejected"]]
     ELSE /\ onDemand.issued < MaxSent
          /\ onDemand' = [onDemand EXCEPT
                            !.isAnalyzing = TRUE,
                            !.issued = @ + 1,
                            !.captures = Append(@, [stage |-> "encoding",
                                                    mode |-> onDemand.mode]),
                            !.last = [OnDemandOp("capture") EXCEPT
                                        !.outcome = "started"]]
  /\ UNCHANGED <<streaming, history, home>>

Remove(seq, i) == SubSeq(seq, 1, i - 1) \o SubSeq(seq, i + 1, Len(seq))

(* The toBlob callback of capture i, lines 601-606: without a blob the     *)
(* flag is cleared and nothing is sent, else the request is issued.        *)
OnDemandBlob(i, hasBlob) ==
  /\ onDemand.captures[i].stage = "encoding"
  /\ onDemand' =
       IF ~hasBlob
       THEN [onDemand EXCEPT
               !.isAnalyzing = OnDemandSet(@, FALSE),
               !.captures = Remove(@, i),
               !.last = [OnDemandOp("blob") EXCEPT !.outcome = "null"]]
       ELSE [onDemand EXCEPT
               !.captures[i].stage = "fetching",
               !.last = [OnDemandOp("blob") EXCEPT !.outcome = "sent"]]
  /\ UNCHANGED <<streaming, history, home>>

(* Variant: the flag is cleared only when the response was applied.        *)
analyzingAfterFetchOnlyOk(ok) == ~ok

(* Line 639: finally { setIsAnalyzing(false) }.                            *)
analyzingAfterFetch(ok) == FALSE

(* Variant: alerts absent from the response keep their earlier value.      *)
OnDemandReconcileMerge(d, data) ==
  [d EXCEPT
     !.detections = Nullish(data.detections, <<>>),
     !.navigation = Nullish(data.navigation, ""),
     !.safeRatio = Nullish(data.safe_ratio, 0),
     !.sceneDescription = Nullish(data.scene_description, ""),
     !.caption = Nullish(data.caption, ""),
     !.depthMap = Nullish(data.depth_map, ""),
     !.freeMask = Nullish(data.free_mask, ""),
     !.urgentCount = Nullish(data.urgent_count, 0),
     !.timingMs = data.timing_ms,
     !.urgentAlerts = Nullish(data.urgent_alerts, @),
     !.allAlerts = Nullish(data.all_alerts, @),
     !.navSpoken = Nullish(data.navigation_spoken, ""),
     !.instruction = Nullish(data.instruction, ""),
     !.leftClear = Nullish(data.left_clear, 0),
     !.rightClear = Nullish(data.right_clear, 0),
     !.centerClear = Nullish(data.center_clear, FALSE),
     !.roadClear = Nullish(data.road_clear, FALSE)]

(* Lines 616-634. *)
OnDemandReconcile(d, data) ==
  [d EXCEPT
     !.detections = Nullish(data.detections, <<>>),
     !.navigation = Nullish(data.navigation, ""),
     !.safeRatio = Nullish(data.safe_ratio, 0),
     !.sceneDescription = Nullish(data.scene_description, ""),
     !.caption = Nullish(data.caption, ""),
     !.depthMap = Nullish(data.depth_map, ""),
     !.freeMask = Nullish(data.free_mask, ""),
     !.urgentCount = Nullish(data.urgent_count, 0),
     !.timingMs = data.timing_ms,
     !.urgentAlerts = Nullish(data.urgent_alerts, <<>>),
     !.allAlerts = Nullish(data.all_alerts, <<>>),
     !.navSpoken = Nullish(data.navigation_spoken, ""),
     !.instruction = Nullish(data.instruction, ""),
     !.leftClear = Nullish(data.left_clear, 0),
     !.rightClear = Nullish(data.right_clear, 0),
     !.centerClear = Nullish(data.center_clear, FALSE),
     !.roadClear = Nullish(data.road_clear, FALSE)]

(* The request of capture i completes with a parsed body, lines 607-639.   *)
OnDemandFetchOk(i, data, f) ==
  /\ onDemand.captures[i].stage = "fetching"
  /\ LET shown == [OnDemandReconcile(onDemand.display, data) EXCEPT
                     !.fps = IF onDemand.lastFrameTs THEN Some(f) ELSE @]
     IN onDemand' = [onDemand EXCEPT
          !.captures = Remove(@, i),
          !.lastFrameTs = TRUE,
          !.display = OnDemandSet(@, shown),
          !.resultKey = OnDemandSet(@, @ + 1),
          !.isAnalyzing = OnDemandSet(@, analyzingAfterFetch(TRUE)),
          !.last = [OnDemandOp("fetchOk") EXCEPT
                      !.outcome = "applied",
                      !.changed = (OnDemandSet(onDemand.display, shown)
                                     # onDemand.display)]]
  /\ UNCHANGED <<streaming, history, home>>

(* The request of capture i fails: fetch rejects ("network") or res.json() *)
(* rejects ("unparsable"), lines 637-639.                                  *)
OnDemandFetchFail(i, why) ==
  /\ onDemand.captures[i].stage = "fetching"
  /\ onDemand' = [onDemand EXCEPT
       !.captures = Remove(@, i),
       !.toasts["Failed to analyse frame."] = @ + 1,
       !.isAnalyzing = OnDemandSet(@, analyzingAfterFetch(FALSE)),
       !.last = [OnDemandOp("fetchFail") EXCEPT !.outcome = why]]
  /\ UNCHANGED <<streaming, history, home>>

NextOnDemand ==
  \/ OnDemandClickStart
  \/ OnDemandAcquireResolve
  \/ \E msg \in {"", "Permission denied"} : OnDemandAcquireReject(msg)
  \/ OnDemandClickStop
  \/ OnDemandUnmount
  \/ \E m \in ModeValues : OnDemandSetMode(m)
  \/ OnDemandCapture
  \/ \E i \in DOMAIN onDemand.captures, hasBlob \in BOOLEAN : OnDemandBlob(i, hasBlob)
  \/ \E i \in DOMAIN onDemand.captures, data \in Frames, f \in FpsValues :
       OnDemandFetchOk(i, data, f)
  \/ \E i \in DOMAIN onDemand.captures, why \in {"network", "unparsable"} :
       OnDemandFetchFail(i, why)

SpecOnDemand == Init /\ [][NextOnDemand]_vars

(* ============================ the History page ========================= *)
(* unnamed/part_002 lines 797-824 (the same handlers are at 348-375 and    *)
(* 436-470); deleteItem is services/api.js lines 50-53.                    *)

(* What GET /history answers: items carry _id, id, both or neither ("" is  *)
(* an absent key).                                                         *)
HistoryData ==
  << [_id |-> "a", id |-> ""], [_id |-> "", id |-> "b"],
     [_id |-> "c", id |-> "a"], [_id |-> "", id |-> "a"],
     [_id |-> "", id |-> ""] >>

Responses == {HistoryData, SubSeq(HistoryData, 2, 3), <<>>}

(* Variant: the filter compares item.id only.                              *)
KeyIdOnly(item) == item.id

(* item._id || item.id, lines 592 and 819.                                 *)
Key(item) == IF item._id # "" THEN item._id ELSE item.id

(* prev.filter(item => (item._id || item.id) !== id), line 819.            *)
Filter(prev, id) ==
  LET keep(item) == Key(item) # id IN SelectSeq(prev, keep)

(* fetchHistory resolves, lines 805-806 and 810.                           *)
HistoryLoaded(data) ==
  /\ history.loading
  /\ history' = [history EXCEPT
                   !.loading = FALSE, !.historyItems = data, !.isLoading = FALSE,
                   !.last = [HistoryNoOp EXCEPT !.op = "loaded"]]
  /\ UNCHANGED <<streaming, onDemand, home>>

(* fetchHistory rejects, lines 807-810.                                    *)
HistoryLoadFailed ==
  /\ history.loading
  /\ history' = [history EXCEPT
                   !.loading = FALSE, !.isLoading = FALSE,
                   !.toast = "Failed to load history",
                   !.last = [HistoryNoOp EXCEPT !.op = "loadFailed"]]
  /\ UNCHANGED <<streaming, onDemand, home>>

(* The Delete button of card i (line 866, onDelete(id)): handleDelete up   *)
(* to its await, lines 815-817.                                            *)
handleDelete(i) ==
  LET id == Key(history.historyItems[i])
  IN /\ history' =
          IF id = ""
          THEN [history EXCEPT
                  !.last = [HistoryNoOp EXCEPT !.op = "handleDelete", !.id = id,
                                               !.outcome = "ignored"]]
          ELSE [history EXCEPT
                  !.deleting = Append(@, id),
                  !.deletes = @ + 1,
                  !.last = [HistoryNoOp EXCEPT !.op = "handleDelete", !.id = id,
                                               !.outcome = "requested"]]
     /\ id # "" => history.deletes < MaxDeletes
     /\ UNCHANGED <<streaming, onDemand, home>>

(* DELETE /delete/:id of request k completes, lines 818-823.               *)
DeleteDone(k, ok) ==
  LET id == history.deleting[k]
  IN /\ history' =
          IF ok
          THEN [history EXCEPT
                  !.deleting = Remove(@, k),
                  !.historyItems = Filter(@, id),
                  !.toast = "Item deleted",
                  !.last = [HistoryNoOp EXCEPT !.op = "deleteDone", !.id = id,
                                               !.outcome = "ok"]]
          ELSE [history EXCEPT
                  !.deleting = Remove(@, k),
                  !.toast = "Failed to delete item",
                  !.last = [HistoryNoOp EXCEPT !.op = "deleteDone", !.id = id,
                                               !.outcome = "failed"]]
     /\ UNCHANGED <<streaming, onDemand, home>>

NextHistory ==
  \/ \E data \in Responses : HistoryLoaded(data)
  \/ HistoryLoadFailed
  \/ \E i \in DOMAIN history.historyItems : handleDelete(i)
  \/ \E k \in DOMAIN history.deleting, ok \in BOOLEAN : DeleteDone(k, ok)

SpecHistory == Init /\ [][NextHistory]_vars

(* ============================ the upload page ========================== *)
(* client/src/pages/Home.jsx lines 242-292 and the controls of 324-455.    *)

(* The image files the operator can pick.                                  *)
Files == {1, 2}

HomeOp(name) == [HomeNoOp EXCEPT !.op = name]

(* onDragOver / onDragLeave, lines 254-255; the drop zone is rendered      *)
(* while there is no preview (line 344).                                   *)
HomeDrag(over) ==
  /\ home.preview = null
  /\ home.isDragActive # over
  /\ home' = [home EXCEPT !.isDragActive = over, !.last = HomeOp("drag")]
  /\ UNCHANGED <<streaming, onDemand, history>>

(* handleFileSelect, lines 265-268, from the file input or a dropped       *)
(* image (lines 256-261).                                                  *)
handleFileSelect(f) ==
  /\ home.preview = null
  /\ home' = [home EXCEPT
                !.isDragActive = FALSE,
                !.file = f, !.preview = f, !.result = None,
                !.toast = "Image selected.",
                !.last = HomeOp("handleFileSelect")]
  /\ UNCHANGED <<streaming, onDemand, history>>

(* onDrop of something that is no image, lines 256-260.                    *)
HomeDropInvalid ==
  /\ home.preview = null
  /\ home' = [home EXCEPT
                !.isDragActive = FALSE,
                !.toast = "Please upload a valid image file.",
                !.last = HomeOp("dropInvalid")]
  /\ UNCHANGED <<streaming, onDemand, history>>

(* resetUpload, line 292: the Remove Image button over the preview.        *)
resetUpload ==
  /\ home.preview # null
  /\ home' = [home EXCEPT !.file = null, !.preview = null, !.result = None,
                          !.last = HomeOp("resetUpload")]
  /\ UNCHANGED <<streaming, onDemand, history>>

(* A mode button, line 326: setMode(m.value); setResult(null).             *)
HomeSetMode(m) ==
  /\ home' = [home EXCEPT !.mode = m, !.result = None,
                          !.last = HomeOp("setMode")]
  /\ UNCHANGED <<streaming, onDemand, history>>

(* handleAnalyze up to its await, lines 270-279; the button is rendered    *)
(* with a preview and no result, and disabled while loading (388-391).     *)
handleAnalyze ==
  /\ home.preview # null /\ home.result = None /\ ~home.loading
  /\ IF home.file = null
     THEN home' = [home EXCEPT !.toast = "Please upload an image first.",
                               !.last = HomeOp("handleAnalyze")]
     ELSE /\ home.analyses < MaxAnalyses
          /\ home' = [home EXCEPT
                        !.loading = TRUE,
                        !.analyses = @ + 1,
                        !.requests = Append(@, [file |-> home.file,
                                                mode |-> home.mode]),
                        !.last = HomeOp("handleAnalyze")]
  /\ UNCHANGED <<streaming, onDemand, history>>

(* err.message of the error caught at line 285: thrown at line 280 or 282, *)
(* or the rejection of fetch ("empty" is an error without message).        *)
ErrMessage(why) ==
  IF why = "http" THEN "HTTP 500"
  ELSE IF why = "error" THEN "inference failed"
  ELSE IF why = "network" THEN "Failed to fetch"
  ELSE ""

(* err.message || 'Failed to analyze image.', line 286.                    *)
ErrorToast(why) ==
  IF ErrMessage(why) = "" THEN "Failed to analyze image." ELSE ErrMessage(why)

(* The request k completes, lines 279-289: "ok" is a body without error,   *)
(* "http" a status that is not ok, "error" a body with an error field,     *)
(* "network" and "empty" a rejected fetch.  The body is the analysis of    *)
(* the file and mode that were sent.                                       *)
AnalyzeDone(k, outcome) ==
  /\ home' =
       IF outcome = "ok"
       THEN [home EXCEPT
               !.requests = Remove(@, k),
               !.result = Some(home.requests[k]),
               !.toast = "Analysis complete!",
               !.loading = FALSE,
               !.last = [HomeOp("analyzeDone") EXCEPT !.outcome = outcome]]
       ELSE [home EXCEPT
               !.requests = Remove(@, k),
               !.toast = ErrorToast(outcome),
               !.loading = FALSE,
               !.last = [HomeOp("analyzeDone") EXCEPT !.outcome = outcome]]
  /\ UNCHANGED <<streaming, onDemand, history>>

NextHome ==
  \/ \E over \in BOOLEAN : HomeDrag(over)
  \/ \E f \in Files : handleFileSelect(f)
  \/ HomeDropInvalid
  \/ resetUpload
  \/ \E m \in ModeValues : HomeSetMode(m)
  \/ handleAnalyze
  \/ \E k \in DOMAIN home.requests :
       \E outcome \in {"ok", "http", "error", "network", "empty"} :
         AnalyzeDone(k, outcome)

SpecHome == Init /\ [][NextHome]_vars

(* ================================ claims =============================== *)

(* C1: a sampler tick that fires while the in-flight flag isAnalyzing is    *)
(* set sends nothing on the channel (the tick is dropped).                  *)
C1_TickDroppedWhileInFlight ==
  (last.op = "tick" /\ last.wasAnalyzing) => ~last.didSend

(* C2: every outgoing request is tagged with the mode that was selected     *)
(* at the tick that sent it.                                                *)
C2_RequestTaggedWithModeInForce ==
  sent > 0 => lastSent.mode = lastSent.modeInForce

(* C3: a result answering a request sent under another mode than the one    *)
(* now selected changes no display-state field.                             *)
C3_StaleResultDiscarded ==
  (last.op = "message" /\ last.stale) => ~last.changed

(* C4: stopCamera from any reachable state leaves the page idle (camera     *)
(* inactive, no timer, no channel, no capture stream); no timer is cleared, *)
(* no channel closed and no stream stopped more than once, and a stopCamera *)
(* that directly follows a stopCamera changes none of them.                 *)
C4_StopLeavesIdleOnce ==
  /\ [](last.op = "stopCamera" =>
          /\ ~isCameraActive
          /\ captureIntervalRef = null /\ socketRef = null /\ streamRef = null
          /\ RunningTimers = {} /\ LiveSockets = {} /\ LiveStreams = {})
  /\ [](/\ \A t \in DOMAIN timers : timers[t].clearCalls <= 1
        /\ \A s \in DOMAIN sockets : sockets[s].closeCalls <= 1
        /\ \A i \in DOMAIN streams : streams[i].stopCalls <= 1)
  /\ [][(last.op = "stopCamera" /\ last'.op = "stopCamera") =>
          UNCHANGED <<isCameraActive, captureIntervalRef, socketRef,
                      streamRef, timers, sockets, streams>>]_vars

(* C4 witness: a live session was stopped, releasing each resource once,    *)
(* and stopCamera then ran again.                                           *)
C4_Witness ==
  /\ last.op = "stopCamera" /\ last.repeated
  /\ \E t \in DOMAIN timers : timers[t].clearCalls = 1
  /\ \E s \in DOMAIN sockets : sockets[s].closeCalls = 1
  /\ \E i \in DOMAIN streams : streams[i].stopCalls = 1

(* C5: once stopCamera (or the unmount cleanup) has run after the latest    *)
(* startCamera and no acquisition is pending, no stream is un-stopped, no   *)
(* channel is connecting or open and no timer runs.                         *)
C5_NoLeakAfterStop ==
  (stoppedSinceStart /\ pendingAcq = 0) =>
    (LiveStreams = {} /\ LiveSockets = {} /\ RunningTimers = {})

(* C6: at most one capture stream is un-stopped and at most one channel is  *)
(* connecting or open, and no handler replaces a stream or socket reference *)
(* whose resource has not been released.                                    *)
C6_AtMostOneSessionAndChannel ==
  /\ [](Cardinality(LiveStreams) <= 1 /\ Cardinality(LiveSockets) <= 1)
  /\ [][/\ (streamRef # null /\ streamRef' # streamRef) => streams'[streamRef].stopped
        /\ (socketRef # null /\ socketRef' # socketRef) =>
              sockets'[socketRef].readyState \notin {"CONNECTING", "OPEN"}]_vars

(* C6 witness: a second session is live after the first one was stopped.    *)
C6_Witness ==
  /\ Len(streams) = 2 /\ LiveStreams = {2} /\ streamRef = 2
  /\ Len(sockets) = 2 /\ LiveSockets = {2} /\ socketRef = 2
  /\ sockets[2].readyState = "OPEN"

(* C7: startCamera invoked while Live is rejected as AlreadyActive and      *)
(* starts no device acquisition.                                            *)
C7_StartWhileLiveRejected ==
  (last.op = "startCamera" /\ last.wasLive) =>
    (last.outcome = "AlreadyActive" /\ pendingAcq = 0)

(* C8: a frame is sent only by a tick that finds the camera active with an  *)
(* un-stopped stream and the channel OPEN, and never once stopCamera has    *)
(* run.                                                                     *)
C8_SendOnlyWhenActiveAndOpen ==
  /\ [][sent' # sent =>
          /\ last'.op = "tick"
          /\ isCameraActive
          /\ streamRef # null /\ ~streams[streamRef].stopped
          /\ ChanState = "OPEN"
          /\ ~stoppedSinceStart]_vars
  /\ [](sent > 0 => lastSent.chan = "OPEN")

(* C8 witness: a frame was sent in a session started after an earlier       *)
(* session had been stopped.                                                *)
C8_Witness ==
  /\ last.op = "tick" /\ last.didSend /\ last.chan = "OPEN"
  /\ \E i \in DOMAIN streams : streams[i].stopped

(* C9: a tick that fires while the channel is not OPEN sends nothing, does  *)
(* not touch the in-flight flag, raises nothing and leaves the timer        *)
(* running.                                                                 *)
C9_TickOnClosedChannelIsDropped ==
  [][(last'.op = "tick" /\ ChanState # "OPEN") =>
       /\ sent' = sent /\ sockets' = sockets
       /\ isAnalyzing' = isAnalyzing
       /\ timers' = timers /\ toasts' = toasts
       /\ last'.outcome \in {"ChannelNotOpen", "NoElement"}]_vars

(* C9 witness: a tick found the channel closing or closed, sent nothing,    *)
(* and its timer still runs.                                                *)
C9_Witness ==
  /\ last.op = "tick" /\ last.chan \in {"CLOSING", "CLOSED"}
  /\ last.outcome = "ChannelNotOpen" /\ ~last.didSend
  /\ captureIntervalRef # null /\ timers[captureIntervalRef].running

(* C10: the page shows the camera as active only when the stream has been   *)
(* acquired and the channel has reached OPEN.                               *)
C10_LiveOnlyWhenChannelOpened ==
  isCameraActive =>
    (streamRef # null /\ socketRef # null /\ sockets[socketRef].opened)

(* C11: a channel is created only after a device acquisition succeeded,    *)
(* and once stopCamera has run, or the referenced channel has reported an  *)
(* error, the channel is closed and socketRef is cleared.                  *)
C11_ChannelReleasedOnStopOrError ==
  /\ Len(sockets) <= Len(streams)
  /\ last.op = "stopCamera" => (socketRef = null /\ LiveSockets = {})
  /\ (last.op = "error" /\ last.outcome = "current") =>
        (socketRef = null /\ LiveSockets = {})

(* C12: after the referenced channel has reported an error the page no     *)
(* longer shows the stream as active (no LIVE badge, status text other     *)
(* than LIVE STREAM ACTIVE, isCameraActive false).                         *)
C12_ErrorNotReportedLive ==
  (last.op = "error" /\ last.outcome = "current") =>
    (~isCameraActive /\ ~LiveBadge /\ StatusText # "LIVE STREAM ACTIVE")

(* The referenced channel has errored or was closed by the service.        *)
ChannelDown ==
  socketRef # null /\ sockets[socketRef].readyState \in {"CLOSING", "CLOSED"}

(* C13: while the referenced channel is down, no handler other than a      *)
(* stopCamera followed by a fresh startCamera opens a connection, sends a  *)
(* frame or accepts a startCamera.                                         *)
C13_NoReconnectAfterChannelDown ==
  [][ChannelDown =>
       /\ Len(sockets') = Len(sockets)
       /\ sent' = sent
       /\ starts' = starts
       /\ pendingAcq' <= pendingAcq]_vars

(* C13 witness: the channel is down, the page still shows the camera as    *)
(* active with START hidden, and the running timer has just ticked.        *)
C13_Witness ==
  /\ ChannelDown /\ sockets[socketRef].readyState = "CLOSED"
  /\ isCameraActive /\ ~StartVisible
  /\ captureIntervalRef \in RunningTimers
  /\ last.op = "tick" /\ last.outcome = "ChannelNotOpen"

(* The release calls appear in the order timer, channel, device.           *)
InTeardownOrder(calls) ==
  LET rank(c) == IF c = "clearInterval" THEN 1 ELSE IF c = "close" THEN 2 ELSE 3
  IN \A i, j \in DOMAIN calls : i < j => rank(calls[i]) < rank(calls[j])

(* C14: every stopCamera cancels the timer, then closes the channel, then  *)
(* releases the device; timers are started after their channel; no timer   *)
(* runs whose channel was closed by stop, and no channel is connecting or  *)
(* open whose device was released.                                         *)
C14_TeardownOrder ==
  /\ last.op = "stopCamera" => InTeardownOrder(last.calls)
  /\ Len(timers) <= Len(sockets)
  /\ \A t \in RunningTimers : sockets[timers[t].socket].closeCalls = 0
  /\ \A s \in LiveSockets : ~streams[s].stopped

(* C14 witness: a stopCamera that made all three release calls.            *)
C14_Witness ==
  /\ last.op = "stopCamera" /\ Len(last.calls) = 3
  /\ RunningTimers = {} /\ LiveSockets = {} /\ LiveStreams = {}

(* C15: a refused device acquisition emits the toast, creates no channel   *)
(* and no timer, schedules no retry, and leaves the mounted page idle with *)
(* the loading flag cleared and the error text set.                        *)
C15_AcquisitionRefusedEndsIdle ==
  [][last'.op = "acquireFailed" =>
       /\ toasts'["Camera access denied."] = toasts["Camera access denied."] + 1
       /\ UNCHANGED <<sockets, timers, streams, starts>>
       /\ pendingAcq' = pendingAcq - 1
       /\ mounted =>
            /\ ~isCameraActive' /\ ~isLoading' /\ camError' # ""
            /\ socketRef' = null /\ captureIntervalRef' = null
            /\ streamRef' = null]_vars

(* C15 witness: the page after a refused acquisition.                      *)
C15_Witness ==
  /\ last.op = "acquireFailed" /\ mounted
  /\ ~isCameraActive /\ ~isLoading /\ camError = "Permission denied"
  /\ toasts["Camera access denied."] = 1 /\ pendingAcq = 0

(* C16: a frame send that throws clears isAnalyzing and leaves the timer,  *)
(* the channel and the camera as they were, so that the next tick finding  *)
(* the channel OPEN sends a frame.                                         *)
C16_SendFailureNonFatal ==
  [][(last'.op = "tick" /\ last'.outcome = "SendError") =>
       /\ ~isAnalyzing'
       /\ UNCHANGED <<timers, captureIntervalRef, sockets, socketRef,
                      streams, streamRef, isCameraActive>>
       /\ captureIntervalRef' \in RunningTimers'
       /\ elementsReady' /\ channelIsOpen']_vars

(* C16 witness: a send has just thrown on the open channel and the timer   *)
(* still runs.                                                             *)
C16_Witness ==
  /\ last.op = "tick" /\ last.outcome = "SendError" /\ last.chan = "OPEN"
  /\ ~isAnalyzing /\ captureIntervalRef \in RunningTimers /\ channelIsOpen

(* C17: a result that carries no detections, navigation or summary changes *)
(* no display-state field.                                                 *)
C17_MalformedResultSkipped ==
  (last.op = "message" /\ last.malformed) => ~last.changed

(* C18: once an inbound message has been processed, a result carrying an   *)
(* error field included, isAnalyzing is cleared.                           *)
C18_FlagClearedWhenResultProcessed ==
  (last.op = "message" /\ mounted) => ~isAnalyzing

(* C19: every failure (acquisition refused, channel error, frame send      *)
(* failure, inbound message with an error field) adds a toast.             *)
C19_EveryFailureToasts ==
  [][(\/ last'.op \in {"acquireFailed", "error"}
      \/ last'.op = "tick" /\ last'.outcome = "SendError"
      \/ last'.op = "message" /\ last'.outcome = "error") =>
       toasts' # toasts]_vars

(* The display state a result alone determines: every field the handler    *)
(* reads, with its default when absent.                                    *)
Normalized(data) ==
  [InitDisplay EXCEPT
     !.detections = Nullish(data.detections, <<>>),
     !.navigation = Nullish(data.navigation, ""),
     !.safeRatio = Nullish(data.safe_ratio, 0),
     !.sceneDescription = Nullish(data.summary, ""),
     !.timingMs = data.timing_ms,
     !.fps = IF data.timing_ms # None /\ data.timing_ms[1].avg_fps # 0
             THEN Some(data.timing_ms[1].avg_fps) ELSE None]

UrgentShown == {i \in DOMAIN display.detections : display.detections[i].urgency}

(* C21: after a result has been reconciled, the displayed urgentCount      *)
(* equals the number of its detections flagged urgent.                     *)
C21_UrgentCountMatchesDetections ==
  (mounted /\ last.op = "message" /\ last.outcome = "applied") =>
    display.urgentCount = Cardinality(UrgentShown)

(* C22: an inbound result carrying instruction, left_clear, right_clear    *)
(* and center_clear is displayed as that steering instruction, those       *)
(* clearances and that centre flag.                                        *)
C22_SelfDrivingResultMapped ==
  [][\A s \in DOMAIN sockets : \A data \in Payloads :
       (/\ mounted /\ OnMessage(s, data) /\ ~Truthy(data.error)
        /\ data.instruction # None) =>
          /\ display'.instruction = data.instruction[1]
          /\ display'.leftClear = Nullish(data.left_clear, 0)
          /\ display'.rightClear = Nullish(data.right_clear, 0)
          /\ display'.centerClear = Nullish(data.center_clear, FALSE)]_vars

(* C25: isAnalyzing is never set while the camera is inactive.             *)
C25_AnalyzingImpliesCameraActive ==
  (mounted /\ isAnalyzing) => isCameraActive

(* C26: at most one interval runs, and only as the referenced one while a  *)
(* channel and a stream are referenced; stopCamera leaves no interval      *)
(* running, and no handle is replaced while its interval runs.             *)
C26_SingleTimerBoundToSession ==
  /\ [](/\ Cardinality(RunningTimers) <= 1
        /\ \A t \in RunningTimers :
              t = captureIntervalRef /\ socketRef # null /\ streamRef # null)
  /\ [][/\ last'.op = "stopCamera" => RunningTimers' = {}
        /\ (captureIntervalRef # null /\ captureIntervalRef' # captureIntervalRef)
              => ~timers'[captureIntervalRef].running]_vars

(* C26 witness: the interval of a first session was cancelled by           *)
(* stopCamera and the interval of a second session runs.                   *)
C26_Witness ==
  /\ Len(timers) = 2 /\ ~timers[1].running /\ timers[1].clearCalls = 1
  /\ RunningTimers = {2} /\ captureIntervalRef = 2

(* C23: with self_driving selected after assistive, reconciling a          *)
(* self-driving result leaves urgentAlerts and allAlerts empty and the     *)
(* spoken navigation blank, whatever was displayed before.                 *)
C23_AssistiveFieldsCleared ==
  [][\A i \in DOMAIN onDemand.captures : \A data \in Frames : \A f \in FpsValues :
       (/\ onDemand.mounted /\ onDemand.mode = "self_driving"
        /\ data.instruction # None /\ data.urgent_alerts = None
        /\ data.all_alerts = None /\ data.navigation_spoken = None
        /\ OnDemandFetchOk(i, data, f)) =>
          /\ onDemand'.display.urgentAlerts = <<>>
          /\ onDemand'.display.allAlerts = <<>>
          /\ onDemand'.display.navSpoken = ""]_vars

(* C23 witness: assistive alerts were on display, the mode went from       *)
(* assistive to self_driving, and a self-driving result was reconciled.    *)
C23_Witness ==
  /\ onDemand.last.op = "fetchOk" /\ onDemand.last.hadAlerts
  /\ onDemand.prevMode = "assistive" /\ onDemand.mode = "self_driving"
  /\ onDemand.display.instruction = "Stop"
  /\ onDemand.display.urgentAlerts = <<>> /\ onDemand.display.allAlerts = <<>>
  /\ onDemand.display.navSpoken = ""

(* C24: a captureAndAnalyze call made while isAnalyzing is set starts no   *)
(* capture, and at most one capture (hence one request) is outstanding.    *)
C24_CaptureNotReentrant ==
  /\ [](Len(onDemand.captures) <= 1)
  /\ [][(onDemand'.last.op = "capture" /\ onDemand.isAnalyzing) =>
          /\ onDemand'.last.outcome = "rejected"
          /\ onDemand'.captures = onDemand.captures
          /\ onDemand'.issued = onDemand.issued]_vars

(* C24 witness: a call was rejected while the request of the previous      *)
(* capture is outstanding.                                                 *)
C24_Witness ==
  /\ onDemand.last.op = "capture" /\ onDemand.last.wasAnalyzing
  /\ onDemand.last.outcome = "rejected" /\ onDemand.isCameraActive
  /\ Len(onDemand.captures) = 1 /\ onDemand.captures[1].stage = "fetching"

(* C27: once stopCamera has run and until the next startCamera, no step    *)
(* changes the display state.                                              *)
C27_NoResultAppliedAfterStop ==
  [][(onDemand.mounted /\ onDemand.stoppedSinceStart
        /\ onDemand'.stoppedSinceStart) =>
       onDemand'.display = onDemand.display]_vars

(* C28: every completion of a capture (no blob, request failed, body       *)
(* unparsable, response applied) leaves isAnalyzing false.                 *)
C28_AnalyzingClearedOnEveryOutcome ==
  [][(/\ onDemand.mounted
      /\ \/ onDemand'.last.op = "blob" /\ onDemand'.last.outcome = "null"
         \/ onDemand'.last.op \in {"fetchOk", "fetchFail"}) =>
       ~onDemand'.isAnalyzing]_vars

(* C28 witness: a capture whose response could not be parsed has ended.    *)
C28_Witness ==
  /\ onDemand.mounted /\ onDemand.last.op = "fetchFail"
  /\ onDemand.last.outcome = "unparsable" /\ onDemand.last.wasAnalyzing
  /\ ~onDemand.isAnalyzing /\ onDemand.toasts["Failed to analyse frame."] = 1

(* The id a history card passes to onDelete: item._id || item.id.          *)
CardId(item) == IF item._id = "" THEN item.id ELSE item._id

(* The items of list l whose card id is not id, in order.                  *)
Without(l, id) ==
  LET others(item) == CardId(item) # id IN SelectSeq(l, others)

(* C29: the displayed list changes only when it is loaded or a delete      *)
(* request has succeeded, and then loses exactly the items with that id,   *)
(* the others keeping their order; a failed request changes nothing and    *)
(* shows the error toast; handleDelete with an empty id sends nothing.     *)
C29_DeleteOnlyAfterSuccess ==
  [][/\ history'.historyItems # history.historyItems =>
          \/ history'.last.op = "loaded"
          \/ history'.last.op = "deleteDone" /\ history'.last.outcome = "ok"
     /\ (history'.last.op = "deleteDone" /\ history'.last.outcome = "ok") =>
          history'.historyItems = Without(history.historyItems, history'.last.id)
     /\ (history'.last.op = "deleteDone" /\ history'.last.outcome = "failed") =>
          /\ history'.historyItems = history.historyItems
          /\ history'.toast = "Failed to delete item"
     /\ (history'.last.op = "handleDelete" /\ history'.last.id = "") =>
          /\ history'.deleting = history.deleting
          /\ history'.deletes = history.deletes
          /\ history'.toast = history.toast]_vars

(* C29 witness: deleting "a" has removed the two items with that id and    *)
(* kept the item whose _id is "c" and id is "a".                           *)
C29_Witness ==
  /\ history.last.op = "deleteDone" /\ history.last.outcome = "ok"
  /\ history.last.id = "a"
  /\ history.historyItems =
       << [_id |-> "", id |-> "b"], [_id |-> "c", id |-> "a"],
          [_id |-> "", id |-> ""] >>

(* C30: a displayed result is the analysis of the selected file under the  *)
(* selected mode.                                                          *)
C30_ResultBelongsToSelection ==
  home.result # None =>
    (home.result[1].mode = home.mode /\ home.result[1].file = home.file)

====
